---- MODULE Spec2Model ----
(***************************************************************************)
(* State-machine model of the LSM-tree key-value engine of                 *)
(* src/lsmt_dhruv_ashray.py (classes SSTable and LSMTree).                 *)
(*                                                                         *)
(* The engine is single-threaded and synchronous.  pc is the position of   *)
(* the one thread: "idle" between two public calls, "compact" when         *)
(* flush_memtable has finished its own work (line 76) and is about to call *)
(* compact_sstables (line 77), or when enforce_final_compaction is about   *)
(* to call it (line 103).  Reads (find, range_query) are operators over    *)
(* the state; a caller can only invoke them when pc = "idle".              *)
(*                                                                         *)
(* Text is modelled as a sequence of one-character strings, a Segment file *)
(* as the sequence of its lines (without the line terminator).  The        *)
(* diagnostics dictionaries search_results and range_search_results are    *)
(* written but never read by the engine and are left out.                  *)
(***************************************************************************)
EXTENDS Integers, Sequences, FiniteSets, TLC

(* ------------------------------ bounds --------------------------------- *)
MaxKey == 2
MaxLimit == 2
MaxSSTables == 2
MaxCounter == 7
MaxFaults == 1
FaultWindow == 1
MaxLevel == 2

Keys == 0..MaxKey
ValA == <<"a">>
ValB == <<"b">>
Values == {ValA, ValB}

(* Python's None, and the text find returns for a missing key (line 153).  *)
None == <<"None">>
KeyNotFound == <<"Key not found">>

VARIABLES memtable, sstables, memtable_limit, max_sstables, sstable_counter,
          deletion_log, disk, unreadable, pc, outcome, lastWrite,
          distinctInserts, faults,
          forward, level, size, node_values, in_list

vars == <<memtable, sstables, memtable_limit, max_sstables, sstable_counter,
          deletion_log, disk, unreadable, pc, outcome, lastWrite,
          distinctInserts, faults,
          forward, level, size, node_values, in_list>>

(* the state of the LSM engine and that of the skip list of                *)
(* src/skipList_dhruv_ashray.py, which share nothing                       *)
lsmVars == <<memtable, sstables, memtable_limit, max_sstables, sstable_counter,
             deletion_log, disk, unreadable, pc, outcome, lastWrite,
             distinctInserts, faults>>

skipVars == <<forward, level, size, node_values, in_list>>

(* ------------------------- text and line format ------------------------ *)
DigitChars == <<"0", "1", "2", "3", "4", "5", "6", "7", "8", "9">>
Whitespace == {" ", "\t", "\n", "\r"}

RECURSIVE IntToStr(_)
IntToStr(n) ==
    IF n < 10 THEN <<DigitChars[n + 1]>>
    ELSE IntToStr(n \div 10) \o <<DigitChars[(n % 10) + 1]>>

IsDigits(s) == Len(s) > 0 /\ \A i \in 1..Len(s) : \E d \in 1..10 : DigitChars[d] = s[i]

DigitVal(c) == (CHOOSE d \in 1..10 : DigitChars[d] = c) - 1

RECURSIVE StrToInt(_)
StrToInt(s) ==
    IF Len(s) = 1 THEN DigitVal(s[1])
    ELSE 10 * StrToInt(SubSeq(s, 1, Len(s) - 1)) + DigitVal(s[Len(s)])

RECURSIVE Strip(_)
Strip(s) ==
    IF s = <<>> THEN s
    ELSE IF s[1] \in Whitespace THEN Strip(Tail(s))
    ELSE IF s[Len(s)] \in Whitespace THEN Strip(SubSeq(s, 1, Len(s) - 1))
    ELSE s

(* str.split(','): the fields between the commas, at least one field.      *)
RECURSIVE Split(_)
Split(s) ==
    IF \A i \in 1..Len(s) : s[i] # ","
    THEN <<s>>
    ELSE LET c == CHOOSE i \in 1..Len(s) : s[i] = "," /\ \A j \in 1..(i - 1) : s[j] # ","
         IN  <<SubSeq(s, 1, c - 1)>> \o Split(SubSeq(s, c + 1, Len(s)))

(* f"{key},{value}" of write_to_disk                                       *)
FormatLine(key, value) == IntToStr(key) \o <<",">> \o value

(* key, value = line.strip().split(','); int(key): the unpacking raises    *)
(* unless there are exactly two fields, int() unless the first is a number *)
ParseError == <<-1, None>>
ParseLine(line) ==
    LET fields == Split(Strip(line))
    IN  IF Len(fields) = 2 /\ IsDigits(Strip(fields[1]))
        THEN <<StrToInt(Strip(fields[1])), fields[2]>>
        ELSE ParseError

(* ------------------------------ helpers -------------------------------- *)
EmptyMap == [k \in {} |-> None]

Min(S) == CHOOSE m \in S : \A x \in S : m <= x

RECURSIVE SortedKeys(_)
SortedKeys(S) ==
    IF S = {} THEN <<>>
    ELSE <<Min(S)>> \o SortedKeys(S \ {Min(S)})

(* the pairs of a dict in descending key order                             *)
SortedItems_descending(d) ==
    LET ks == SortedKeys(DOMAIN d)
    IN  [i \in 1..Len(ks) |-> <<ks[Len(ks) + 1 - i], d[ks[Len(ks) + 1 - i]]>>]

(* sorted(d.items()): the pairs of a dict in ascending key order           *)
SortedItems(d) ==
    LET ks == SortedKeys(DOMAIN d)
    IN  [i \in 1..Len(ks) |-> <<ks[i], d[ks[i]]>>]

Reverse(s) == [i \in 1..Len(s) |-> s[Len(s) + 1 - i]]

(* ------------------------------ SSTable -------------------------------- *)
(* write_to_disk: one line per pair whose value is not None, in data order *)
RECURSIVE write_to_disk(_)
write_to_disk(data) ==
    IF data = <<>> THEN <<>>
    ELSE LET rest == write_to_disk(Tail(data))
         IN  IF data[1][2] # None
             THEN <<FormatLine(data[1][1], data[1][2])>> \o rest
             ELSE rest

(* read_from_disk: the pairs of the file; the generator raises when the    *)
(* file cannot be opened or a line does not parse.                         *)
CanRead(id) ==
    /\ id \notin unreadable
    /\ id \in DOMAIN disk
    /\ \A i \in 1..Len(disk[id]) : ParseLine(disk[id][i]) # ParseError

read_from_disk(id) == [i \in 1..Len(disk[id]) |-> ParseLine(disk[id][i])]

(* ------------------------------ Query Path ----------------------------- *)
(* the loop of search_sstable over the lines of one file: a match returns  *)
(* the value, a larger key stops the scan, a line that does not parse      *)
(* raises inside the try block and so yields None.                         *)
RECURSIVE search_lines(_, _)
search_lines(lines, key) ==
    IF lines = <<>> THEN None
    ELSE LET p == ParseLine(lines[1])
         IN  IF p = ParseError THEN None
             ELSE IF p[1] = key THEN p[2]
             ELSE IF p[1] > key THEN None
             ELSE search_lines(Tail(lines), key)

search_sstable(id, key) ==
    IF id \in unreadable \/ id \notin DOMAIN disk
    THEN None
    ELSE search_lines(disk[id], key)

(* the loop of find over reversed(self.sstables)                           *)
RECURSIVE find_in(_, _)
find_in(ids, key) ==
    IF ids = <<>> THEN KeyNotFound
    ELSE LET result == search_sstable(ids[1], key)
         IN  IF result # None THEN result ELSE find_in(Tail(ids), key)

(* find scanning the Segments oldest first                                 *)
find_oldest_first(key) ==
    IF key \in DOMAIN memtable
    THEN memtable[key]
    ELSE find_in(sstables, key)

find(key) ==
    IF key \in DOMAIN memtable
    THEN memtable[key]
    ELSE find_in(Reverse(sstables), key)

(* the inner loop with the upper bound excluded                           *)
RECURSIVE range_add_exclusive(_, _, _, _)
range_add_exclusive(results, pairs, start_key, end_key) ==
    IF pairs = <<>> THEN results
    ELSE LET key == pairs[1][1]
             value == pairs[1][2]
             next == IF start_key <= key /\ key < end_key /\ key \notin DOMAIN results
                     THEN [x \in (DOMAIN results) \cup {key} |->
                              IF x = key THEN value ELSE results[x]]
                     ELSE results
         IN  range_add_exclusive(next, Tail(pairs), start_key, end_key)

(* the inner loop of range_query over the pairs of one Segment             *)
RECURSIVE range_add(_, _, _, _)
range_add(results, pairs, start_key, end_key) ==
    IF pairs = <<>> THEN results
    ELSE LET key == pairs[1][1]
             value == pairs[1][2]
             next == IF start_key <= key /\ key <= end_key /\ key \notin DOMAIN results
                     THEN [x \in (DOMAIN results) \cup {key} |->
                              IF x = key THEN value ELSE results[x]]
                     ELSE results
         IN  range_add(next, Tail(pairs), start_key, end_key)

(* the outer loop of range_query over self.sstables, in list order         *)
RECURSIVE range_scan(_, _, _, _)
range_scan(results, ids, start_key, end_key) ==
    IF ids = <<>> THEN results
    ELSE range_scan(range_add(results, read_from_disk(ids[1]), start_key, end_key),
                    Tail(ids), start_key, end_key)

(* range_query: raised is TRUE when read_from_disk raised (no try block),  *)
(* otherwise items is the sorted list of pairs it returns.                 *)
range_query(start_key, end_key) ==
    LET inMem == [k \in {x \in DOMAIN memtable : start_key <= x /\ x <= end_key}
                     |-> memtable[k]]
    IN  IF \E i \in 1..Len(sstables) : ~CanRead(sstables[i])
        THEN [raised |-> TRUE, items |-> <<>>]
        ELSE [raised |-> FALSE,
              items |-> SortedItems(range_scan(inMem, sstables, start_key, end_key))]

get_memtable_count == Cardinality(DOMAIN memtable)

(* ------------------------------ skip list ------------------------------ *)
(* SkipList of src/skipList_dhruv_ashray.py.  A node is named by its key   *)
(* (insert never stores a key twice), the header by Header, the None       *)
(* pointer by Nil; forward[n][i] is n.forward[i].  MaxLevel stands for     *)
(* max_level, and random_level is any level in 0..MaxLevel.  space_taken   *)
(* (a sum of sys.getsizeof) is read by no operation and is left out.       *)
Header == -1
Nil == -2

(* values = [random.randint(0, 100) for _ in range(3)]                     *)
SkipValues == {<<0, 0, 0>>, <<100, 0, 100>>}

(* what search returns for a missing key                                   *)
SkipNone == <<>>

SkipInit ==
    /\ forward = [n \in {Header} |-> [i \in 0..MaxLevel |-> Nil]]
    /\ level = 0
    /\ size = 0
    /\ node_values = [n \in {} |-> <<>>]
    /\ in_list = {}

(* while current.forward[i] and current.forward[i].key < key               *)
RECURSIVE advance(_, _, _)
advance(current, i, key) ==
    LET nxt == forward[current][i]
    IN  IF nxt # Nil /\ nxt < key THEN advance(nxt, i, key) ELSE current

(* the update array of insert and delete: for i from the given level down  *)
(* to 0, the last node of level i before key                               *)
RECURSIVE update_path(_, _, _)
update_path(current, i, key) ==
    LET c == advance(current, i, key)
    IN  IF i = 0 THEN (0 :> c)
        ELSE (i :> c) @@ update_path(c, i - 1, key)

SkipList_insert(key) ==
    LET update == update_path(Header, level, key)
        current == forward[update[0]][0]
    IN  /\ UNCHANGED lsmVars
        /\ IF current = key
           THEN UNCHANGED skipVars
           ELSE \E rlevel \in 0..MaxLevel, vals \in SkipValues :
                  LET upd == [i \in 0..rlevel |->
                                 IF i > level THEN Header ELSE update[i]]
                  IN  /\ forward' =
                            [n \in (DOMAIN forward) \cup {key} |->
                                IF n = key
                                THEN [i \in 0..rlevel |-> forward[upd[i]][i]]
                                ELSE [i \in DOMAIN forward[n] |->
                                         IF i <= rlevel /\ upd[i] = n
                                         THEN key
                                         ELSE forward[n][i]]]
                      /\ level' = IF rlevel > level THEN rlevel ELSE level
                      /\ size' = size + 1
                      /\ node_values' = [n \in (DOMAIN node_values) \cup {key} |->
                                            IF n = key THEN vals ELSE node_values[n]]
                      /\ in_list' = in_list \cup {key}

SkipList_delete(key) ==
    LET update == update_path(Header, level, key)
        current == forward[update[0]][0]
        (* the levels the loop of lines 70-73 reaches before its break     *)
        unlinked == {i \in 0..level : \A j \in 0..i : forward[update[j]][j] = current}
        fwd == [n \in (DOMAIN forward) \ {key} |->
                   [i \in DOMAIN forward[n] |->
                       IF i \in unlinked /\ update[i] = n
                       THEN forward[key][i]
                       ELSE forward[n][i]]]
        tops == {i \in 1..level : fwd[Header][i] # Nil}
    IN  /\ UNCHANGED lsmVars
        /\ IF current = key
           THEN /\ forward' = fwd
                /\ level' = IF tops = {} THEN 0
                            ELSE CHOOSE i \in tops : \A j \in tops : j <= i
                /\ size' = size - 1
                /\ node_values' = [n \in (DOMAIN node_values) \ {key} |-> node_values[n]]
                /\ in_list' = in_list \ {key}
           ELSE UNCHANGED skipVars

(* for i in range(self.level, 1, -1): the loop of search stops above       *)
(* level 1                                                                 *)
RECURSIVE search_descend(_, _, _)
search_descend(current, i, key) ==
    IF i <= 1 THEN current
    ELSE search_descend(advance(current, i, key), i - 1, key)

SkipList_search(key) ==
    LET current == forward[search_descend(Header, level, key)][0]
    IN  IF current # Nil /\ current = key THEN node_values[current] ELSE SkipNone

NextSkipList ==
    \/ \E key \in Keys : SkipList_insert(key)
    \/ \E key \in Keys : SkipList_delete(key)

(* ------------------------------ write path ----------------------------- *)
NoWrite == [op |-> "none", value |-> None]

Init ==
    /\ memtable = EmptyMap
    /\ sstables = <<>>
    /\ memtable_limit \in 0..MaxLimit
    /\ max_sstables \in 1..MaxSSTables
    /\ sstable_counter = 0
    /\ deletion_log = {}
    /\ disk = [id \in {} |-> <<>>]
    /\ unreadable = {}
    /\ pc = "idle"
    /\ outcome = "ok"
    /\ lastWrite = [k \in Keys |-> NoWrite]
    /\ distinctInserts = TRUE
    /\ faults = 0
    /\ SkipInit

(* flush_memtable without the call of compact_sstables of line 77          *)
flush_memtable_no_check(mt, dl) ==
    LET sorted_memtable == SortedItems(mt)
        data == SelectSeq(sorted_memtable, LAMBDA e : e[1] \notin dl)
    IN  /\ disk' = [id \in (DOMAIN disk) \cup {sstable_counter} |->
                       IF id = sstable_counter THEN write_to_disk(data) ELSE disk[id]]
        /\ sstables' = Append(sstables, sstable_counter)
        /\ memtable' = EmptyMap
        /\ sstable_counter' = sstable_counter + 1
        /\ deletion_log' = dl
        /\ pc' = "idle"
        /\ outcome' = "ok"

(* flush_memtable up to line 76, on the Memtable mt and Tombstone Set dl   *)
(* the caller has just built; line 77 is the step compact_sstables.        *)
flush_memtable(mt, dl) ==
    LET sorted_memtable == SortedItems(mt)
        data == SelectSeq(sorted_memtable, LAMBDA e : e[1] \notin dl)
    IN  /\ disk' = [id \in (DOMAIN disk) \cup {sstable_counter} |->
                       IF id = sstable_counter THEN write_to_disk(data) ELSE disk[id]]
        /\ sstables' = Append(sstables, sstable_counter)
        /\ memtable' = EmptyMap
        /\ sstable_counter' = sstable_counter + 1
        /\ deletion_log' = dl
        /\ pc' = "compact"
        /\ outcome' = "pending"

(* insert flushing only once the Memtable exceeds the limit               *)
insert_above_limit(key, value) ==
    LET dl == deletion_log \ {key}
        mt == [k \in (DOMAIN memtable) \cup {key} |->
                  IF k = key THEN value ELSE memtable[k]]
    IN  /\ pc = "idle"
        /\ UNCHANGED skipVars
        /\ sstable_counter < MaxCounter
        /\ lastWrite' = [lastWrite EXCEPT ![key] = [op |-> "insert", value |-> value]]
        /\ distinctInserts' = (distinctInserts /\ lastWrite[key].op = "none")
        /\ IF Cardinality(DOMAIN mt) > memtable_limit
           THEN flush_memtable(mt, dl)
           ELSE /\ memtable' = mt
                /\ deletion_log' = dl
                /\ outcome' = "ok"
                /\ UNCHANGED <<sstables, sstable_counter, disk, pc>>
        /\ UNCHANGED <<memtable_limit, max_sstables, unreadable, faults>>

insert(key, value) ==
    LET dl == deletion_log \ {key}
        mt == [k \in (DOMAIN memtable) \cup {key} |->
                  IF k = key THEN value ELSE memtable[k]]
    IN  /\ pc = "idle"
        /\ UNCHANGED skipVars
        /\ sstable_counter < MaxCounter
        /\ lastWrite' = [lastWrite EXCEPT ![key] = [op |-> "insert", value |-> value]]
        /\ distinctInserts' = (distinctInserts /\ lastWrite[key].op = "none")
        /\ IF Cardinality(DOMAIN mt) >= memtable_limit
           THEN flush_memtable(mt, dl)
           ELSE /\ memtable' = mt
                /\ deletion_log' = dl
                /\ outcome' = "ok"
                /\ UNCHANGED <<sstables, sstable_counter, disk, pc>>
        /\ UNCHANGED <<memtable_limit, max_sstables, unreadable, faults>>

(* delete that records the tombstone only when the Memtable did not hold   *)
(* the key                                                                 *)
delete_keys_else(ks) ==
    /\ pc = "idle"
    /\ UNCHANGED skipVars
    /\ deletion_log' = deletion_log \cup (ks \ DOMAIN memtable)
    /\ memtable' = [k \in (DOMAIN memtable) \ ks |-> memtable[k]]
    /\ lastWrite' = [k \in Keys |-> IF k \in ks
                                    THEN [op |-> "delete", value |-> None]
                                    ELSE lastWrite[k]]
    /\ distinctInserts' = FALSE
    /\ outcome' = "ok"
    /\ UNCHANGED <<sstables, memtable_limit, max_sstables, sstable_counter,
                   disk, unreadable, pc, faults>>

(* delete that leaves the Memtable entry in place                          *)
delete_keys_keep_memtable(ks) ==
    /\ pc = "idle"
    /\ UNCHANGED skipVars
    /\ deletion_log' = deletion_log \cup ks
    /\ memtable' = memtable
    /\ lastWrite' = [k \in Keys |-> IF k \in ks
                                    THEN [op |-> "delete", value |-> None]
                                    ELSE lastWrite[k]]
    /\ distinctInserts' = FALSE
    /\ outcome' = "ok"
    /\ UNCHANGED <<sstables, memtable_limit, max_sstables, sstable_counter,
                   disk, unreadable, pc, faults>>

(* delete_range is the loop of delete over start_key..end_key; delete is   *)
(* the one-key case.                                                       *)
delete_keys(ks) ==
    /\ pc = "idle"
    /\ UNCHANGED skipVars
    /\ deletion_log' = deletion_log \cup ks
    /\ memtable' = [k \in (DOMAIN memtable) \ ks |-> memtable[k]]
    /\ lastWrite' = [k \in Keys |-> IF k \in ks
                                    THEN [op |-> "delete", value |-> None]
                                    ELSE lastWrite[k]]
    /\ distinctInserts' = FALSE
    /\ outcome' = "ok"
    /\ UNCHANGED <<sstables, memtable_limit, max_sstables, sstable_counter,
                   disk, unreadable, pc, faults>>

delete(key) == delete_keys({key})

delete_range(start_key, end_key) == delete_keys(start_key..end_key)

(* the merge without the tombstone test of line 85                         *)
RECURSIVE merge_add_unfiltered(_, _)
merge_add_unfiltered(merged, pairs) ==
    IF pairs = <<>> THEN merged
    ELSE LET key == pairs[1][1]
             value == pairs[1][2]
             next == [x \in (DOMAIN merged) \cup {key} |->
                         IF x = key THEN value ELSE merged[x]]
         IN  merge_add_unfiltered(next, Tail(pairs))

(* merged_data of compact_sstables, lines 82-86: every Segment in list     *)
(* order, a later pair overwriting an earlier one, tombstoned keys skipped *)
RECURSIVE merge_add(_, _)
merge_add(merged, pairs) ==
    IF pairs = <<>> THEN merged
    ELSE LET key == pairs[1][1]
             value == pairs[1][2]
             next == IF key \notin deletion_log
                     THEN [x \in (DOMAIN merged) \cup {key} |->
                              IF x = key THEN value ELSE merged[x]]
                     ELSE merged
         IN  merge_add(next, Tail(pairs))

RECURSIVE merge_all(_, _)
merge_all(merged, ids) ==
    IF ids = <<>> THEN merged
    ELSE merge_all(merge_add(merged, read_from_disk(ids[1])), Tail(ids))

merged_data == merge_all(EmptyMap, sstables)

(* chunking whose slices run one pair too far: sorted_items[i:i + n + 1]   *)
RECURSIVE Chunks_overlap(_, _)
Chunks_overlap(items, n) ==
    IF items = <<>> THEN <<>>
    ELSE IF Len(items) <= n THEN <<items>>
    ELSE <<SubSeq(items, 1, n + 1)>> \o Chunks_overlap(SubSeq(items, n + 1, Len(items)), n)

(* line 92: sorted_items[i:i + n] for i in range(0, len, n), n >= 1        *)
RECURSIVE Chunks(_, _)
Chunks(items, n) ==
    IF items = <<>> THEN <<>>
    ELSE IF Len(items) <= n THEN <<items>>
    ELSE <<SubSeq(items, 1, n)>> \o Chunks(SubSeq(items, n + 1, Len(items)), n)

SSTableIds == {sstables[i] : i \in 1..Len(sstables)}

(* replacement of the Segments that forgets to clear the Tombstone Set     *)
replace_sstables_keep_log(chunks, written) ==
    LET newIds == {sstable_counter + j - 1 : j \in 1..written}
    IN  /\ disk' = [id \in ((DOMAIN disk) \ SSTableIds) \cup newIds |->
                       IF id \in newIds
                       THEN write_to_disk(chunks[id - sstable_counter + 1])
                       ELSE disk[id]]
        /\ sstables' = [j \in 1..written |-> sstable_counter + j - 1]
        /\ sstable_counter' = sstable_counter + written
        /\ deletion_log' = deletion_log

(* lines 87-90 and the first written chunks of lines 93-98                 *)
replace_sstables(chunks, written) ==
    LET newIds == {sstable_counter + j - 1 : j \in 1..written}
    IN  /\ disk' = [id \in ((DOMAIN disk) \ SSTableIds) \cup newIds |->
                       IF id \in newIds
                       THEN write_to_disk(chunks[id - sstable_counter + 1])
                       ELSE disk[id]]
        /\ sstables' = [j \in 1..written |-> sstable_counter + j - 1]
        /\ sstable_counter' = sstable_counter + written
        /\ deletion_log' = {}

(* compact_sstables, entered from flush_memtable (line 77) or from         *)
(* enforce_final_compaction (line 103)                                     *)
compact_sstables ==
    /\ pc = "compact"
    /\ UNCHANGED skipVars
    /\ pc' = "idle"
    /\ IF Len(sstables) > max_sstables
       THEN IF \E i \in 1..Len(sstables) : ~CanRead(sstables[i])
            THEN /\ outcome' = "ReadError"
                 /\ UNCHANGED <<sstables, sstable_counter, deletion_log, disk>>
            ELSE IF memtable_limit = 0
            THEN /\ replace_sstables(<<>>, 0)
                 /\ outcome' = "ValueError"
            ELSE LET chunks == Chunks(SortedItems(merged_data), memtable_limit)
                 IN  /\ replace_sstables(chunks, Len(chunks))
                     /\ outcome' = "ok"
       ELSE /\ outcome' = "ok"
            /\ UNCHANGED <<sstables, sstable_counter, deletion_log, disk>>
    /\ UNCHANGED <<memtable, memtable_limit, max_sstables, unreadable,
                   lastWrite, distinctInserts, faults>>

enforce_final_compaction ==
    /\ pc = "idle"
    /\ UNCHANGED skipVars
    /\ sstable_counter < MaxCounter
    /\ IF Len(sstables) > max_sstables
       THEN pc' = "compact" /\ outcome' = "pending"
       ELSE pc' = "idle" /\ outcome' = "ok"
    /\ UNCHANGED <<memtable, sstables, memtable_limit, max_sstables,
                   sstable_counter, deletion_log, disk, unreadable,
                   lastWrite, distinctInserts, faults>>

Next ==
    \/ \E key \in Keys, value \in Values : insert(key, value)
    \/ \E key \in Keys : delete(key)
    \/ \E start_key \in Keys, end_key \in Keys :
          start_key < end_key /\ delete_range(start_key, end_key)
    \/ compact_sstables
    \/ enforce_final_compaction

Spec == Init /\ [][Next]_vars

SpecSkipList == Init /\ [][NextSkipList]_vars

(* ------------------------- storage failures ---------------------------- *)
(* Failures are injected by the storage, at most MaxFaults of them and     *)
(* only while the last FaultWindow Segment identifiers of a run are used.  *)
FaultAllowed == faults < MaxFaults /\ sstable_counter + FaultWindow >= MaxCounter

(* The backing file of a Segment of the list stops being readable: open()  *)
(* raises in read_from_disk (line 26) and in search_sstable (line 128).    *)
storage_read_failure(id) ==
    /\ pc = "idle"
    /\ UNCHANGED skipVars
    /\ FaultAllowed
    /\ faults' = faults + 1
    /\ id \in SSTableIds \ unreadable
    /\ unreadable' = unreadable \cup {id}
    /\ UNCHANGED <<memtable, sstables, memtable_limit, max_sstables,
                   sstable_counter, deletion_log, disk, pc, outcome,
                   lastWrite, distinctInserts>>

(* insert whose flush fails in write_to_disk (open(path, 'w') raises at    *)
(* line 18): lines 50-52 have run, lines 74-77 have not.                   *)
insert_write_failure(key, value) ==
    LET dl == deletion_log \ {key}
        mt == [k \in (DOMAIN memtable) \cup {key} |->
                  IF k = key THEN value ELSE memtable[k]]
    IN  /\ pc = "idle"
        /\ UNCHANGED skipVars
        /\ sstable_counter < MaxCounter
        /\ FaultAllowed
        /\ faults' = faults + 1
        /\ Cardinality(DOMAIN mt) >= memtable_limit
        /\ memtable' = mt
        /\ deletion_log' = dl
        /\ lastWrite' = [lastWrite EXCEPT ![key] = [op |-> "insert", value |-> value]]
        /\ distinctInserts' = (distinctInserts /\ lastWrite[key].op = "none")
        /\ outcome' = "WriteError"
        /\ UNCHANGED <<sstables, memtable_limit, max_sstables, sstable_counter,
                       disk, unreadable, pc>>

(* compact_sstables whose write of chunk number failed raises at line 96:  *)
(* lines 87-90 have run and the chunks before it are written and appended. *)
compact_write_failure(failed) ==
    /\ pc = "compact"
    /\ UNCHANGED skipVars
    /\ FaultAllowed
    /\ faults' = faults + 1
    /\ Len(sstables) > max_sstables
    /\ \A i \in 1..Len(sstables) : CanRead(sstables[i])
    /\ memtable_limit >= 1
    /\ LET chunks == Chunks(SortedItems(merged_data), memtable_limit)
       IN  /\ failed \in 1..Len(chunks)
           /\ replace_sstables(chunks, failed - 1)
    /\ pc' = "idle"
    /\ outcome' = "WriteError"
    /\ UNCHANGED <<memtable, memtable_limit, max_sstables, unreadable,
                   lastWrite, distinctInserts>>

NextFault ==
    \/ Next
    \/ \E id \in 0..MaxCounter : storage_read_failure(id)
    \/ \E key \in Keys, value \in Values : insert_write_failure(key, value)
    \/ \E failed \in 1..(MaxKey + 1) : compact_write_failure(failed)

SpecFault == Init /\ [][NextFault]_vars

(* ------------------------------ properties ----------------------------- *)
CompactionHasRun == sstable_counter > Len(sstables)

InSSTable(id, key) == \E i \in 1..Len(disk[id]) : ParseLine(disk[id][i])[1] = key

(* the reference map: the last write of every key                          *)
Expected(k) ==
    IF lastWrite[k].op = "insert" THEN lastWrite[k].value ELSE KeyNotFound

ExpectedRange(lo, hi) ==
    SortedItems([k \in {x \in Keys : lo <= x /\ x <= hi /\ lastWrite[x].op = "insert"}
                    |-> lastWrite[k].value])

C2_DeletedKeyNotFound ==
    pc = "idle" =>
        \A k \in Keys : lastWrite[k].op = "delete" => find(k) = KeyNotFound

(* C3: a compaction that runs to completion changes the result of no       *)
(* find(k) and of no range_query(lo, hi).                                  *)
C3_CompactionPreservesReads ==
    [][(pc = "compact" /\ Len(sstables) > max_sstables /\ outcome' = "ok")
         => /\ \A k \in Keys : find(k)' = find(k)
            /\ \A lo \in Keys, hi \in Keys :
                  range_query(lo, hi)' = range_query(lo, hi)]_vars

(* the value of key in the Memtable, else in the Segment latest in the     *)
(* list that holds the key                                                 *)
NewestValue(key) ==
    IF key \in DOMAIN memtable THEN memtable[key]
    ELSE LET holders == {i \in 1..Len(sstables) : InSSTable(sstables[i], key)}
             newest == CHOOSE i \in holders : \A j \in holders : j <= i
             pairs == read_from_disk(sstables[newest])
         IN  pairs[CHOOSE n \in 1..Len(pairs) : pairs[n][1] = key][2]

(* C4: every pair range_query returns carries the newest value of its key: *)
(* the Memtable's, else that of the most recently created Segment.         *)
C4_RangeNewestWins ==
    pc = "idle" =>
        \A lo \in Keys, hi \in Keys :
            LET items == range_query(lo, hi).items
            IN  \A n \in 1..Len(items) : items[n][2] = NewestValue(items[n][1])

(* C5: range_query returns no key of the Tombstone Set.                    *)
C5_RangeExcludesTombstones ==
    pc = "idle" =>
        \A lo \in Keys, hi \in Keys :
            LET items == range_query(lo, hi).items
            IN  \A n \in 1..Len(items) : items[n][1] \notin deletion_log

C7_CompactionFailureAtomic ==
    [][(pc = "compact" /\ outcome' = "WriteError")
         => /\ sstables' = sstables
            /\ disk' = disk
            /\ deletion_log' = deletion_log
            /\ \A k \in Keys : find(k)' = find(k)
            /\ \A lo \in Keys, hi \in Keys :
                  range_query(lo, hi)' = range_query(lo, hi)]_vars

(* C8: with memtable_limit = 0 no call raises, the Memtable is empty after *)
(* every insert, and every key whose last write is an insert is found.     *)
C8_ZeroLimitSupported ==
    memtable_limit = 0 =>
        /\ outcome \in {"ok", "pending"}
        /\ (pc = "idle" => memtable = EmptyMap)
        /\ (pc = "idle" =>
               \A k \in Keys : lastWrite[k].op = "insert" => find(k) = lastWrite[k].value)

(* C9: with memtable_limit >= 1 the Memtable holds fewer than              *)
(* memtable_limit entries in every state an insert leaves behind: the      *)
(* insert that reaches the limit flushes and empties it.                   *)
C9_MemtableBelowLimit ==
    memtable_limit >= 1 => get_memtable_count < memtable_limit

(* an insert has just reached the limit and flushed                        *)
C9_Witness ==
    /\ memtable_limit = MaxLimit
    /\ pc = "compact"
    /\ get_memtable_count = 0
    /\ Len(disk[sstables[Len(sstables)]]) = memtable_limit

Readable == SelectSeq(sstables, LAMBDA id : id \notin unreadable)

(* C10: with a Segment whose storage cannot be read, find and range_query  *)
(* still return, with the result the Memtable and the readable Segments    *)
(* give.                                                                   *)
C10_ReadFailureIsolated ==
    (pc = "idle" /\ unreadable # {}) =>
        /\ \A k \in Keys :
              find(k) = IF k \in DOMAIN memtable THEN memtable[k]
                        ELSE find_in(Reverse(Readable), k)
        /\ \A lo \in Keys, hi \in Keys :
              /\ ~range_query(lo, hi).raised
              /\ range_query(lo, hi).items =
                    SortedItems(range_scan(
                        [k \in {x \in DOMAIN memtable : lo <= x /\ x <= hi} |-> memtable[k]],
                        Readable, lo, hi))

(* C11: delete is idempotent: a delete(k) step leaves k tombstoned and out *)
(* of the Memtable, and from any such state (in particular the one a first *)
(* delete(k) left) a delete(k) changes neither the Memtable nor the        *)
(* Tombstone Set nor the Segment list nor the Segment files.               *)
C11_DeleteIdempotent ==
    [][\A k \in Keys :
          delete(k) =>
              /\ k \in deletion_log'
              /\ k \notin DOMAIN memtable'
              /\ ((k \in deletion_log /\ k \notin DOMAIN memtable) =>
                     UNCHANGED <<memtable, deletion_log, sstables, disk>>)]_vars

(* a deleted key with a tombstone, no Memtable entry and a stale Segment   *)
(* copy, next to a key deleted without ever being stored                   *)
C11_Witness ==
    /\ pc = "idle"
    /\ \E k \in Keys :
          /\ lastWrite[k].op = "delete"
          /\ k \in deletion_log
          /\ k \notin DOMAIN memtable
          /\ \E id \in SSTableIds : search_sstable(id, k) # None
    /\ \E k \in Keys :
          /\ lastWrite[k].op = "delete"
          /\ k \in deletion_log
          /\ \A id \in SSTableIds : search_sstable(id, k) = None

CompactionCompletes ==
    pc = "compact" /\ Len(sstables) > max_sstables /\ outcome' = "ok"

(* the distinct keys of the Segments of the list that are not tombstoned   *)
LiveKeys ==
    {k \in Keys \ deletion_log : \E id \in SSTableIds : InSSTable(id, k)}

CeilDiv(a, b) == (a + b - 1) \div b

(* C12 as stated: every compaction that runs to completion leaves strictly *)
(* fewer Segments in the list than it found.                               *)
C12_CompactionShrinks ==
    [][CompactionCompletes => Len(sstables') < Len(sstables)]_vars

(* What compact_sstables does instead: it leaves ceil(n / memtable_limit)  *)
(* Segments, n the number of distinct keys of the old Segments that are    *)
(* not tombstoned; when no old Segment holds more than memtable_limit      *)
(* entries that is never more than it found, and it can be as many.        *)
CompactionNeverGrows ==
    [][CompactionCompletes =>
          /\ Len(sstables') = CeilDiv(Cardinality(LiveKeys), memtable_limit)
          /\ (\A id \in SSTableIds : Len(disk[id]) <= memtable_limit)
                => Len(sstables') <= Len(sstables)]_vars

(* the pairs held by the Segments of the list                              *)
SegmentEntries ==
    UNION {{read_from_disk(id)[i] : i \in 1..Len(disk[id])} : id \in SSTableIds}

(* the value of key in the Segment latest in the list that holds it        *)
SegmentNewest(key) ==
    LET holders == {i \in 1..Len(sstables) : InSSTable(sstables[i], key)}
        newest == CHOOSE i \in holders : \A j \in holders : j <= i
        pairs == read_from_disk(sstables[newest])
    IN  pairs[CHOOSE n \in 1..Len(pairs) : pairs[n][1] = key][2]

NewestWinsMerge == {<<k, SegmentNewest(k)>> : k \in LiveKeys}

(* C13: the Segments a compaction leaves hold exactly the newest-wins      *)
(* merge of the Segments it found, without the keys tombstoned when it     *)
(* started.                                                                *)
C13_MergeContent ==
    [][(pc = "compact" /\ Len(sstables) > max_sstables)
         => SegmentEntries' = NewestWinsMerge]_vars

(* The same for the compactions that run to completion, which are those    *)
(* with memtable_limit >= 1.                                               *)
MergeContentWhenCompleted ==
    [][CompactionCompletes => SegmentEntries' = NewestWinsMerge]_vars

(* C14: a compaction leaves the Tombstone Set empty, and a key whose last  *)
(* write is a delete and whose tombstone a compaction has cleared is       *)
(* neither found by find nor returned by range_query.                      *)
C14_ClearedTombstoneStaysDeleted ==
    /\ [][(pc = "compact" /\ Len(sstables) > max_sstables)
            => deletion_log' = {}]_vars
    /\ [](\A k \in Keys :
            (lastWrite[k].op = "delete" /\ k \notin deletion_log) =>
                /\ find(k) = KeyNotFound
                /\ \A lo \in Keys, hi \in Keys :
                      LET items == range_query(lo, hi).items
                      IN  \A n \in 1..Len(items) : items[n][1] # k)

(* a deleted key whose tombstone a completed compaction cleared, while     *)
(* other keys are still stored                                             *)
C14_Witness ==
    /\ pc = "idle"
    /\ outcome = "ok"
    /\ CompactionHasRun
    /\ deletion_log = {}
    /\ Len(sstables) >= 1
    /\ \E k \in Keys : lastWrite[k].op = "delete" /\ find(k) = KeyNotFound

SegmentKeys(id) == {read_from_disk(id)[i][1] : i \in 1..Len(disk[id])}

(* C15: a Segment written by a flush holds no key of the Tombstone Set as  *)
(* it is when the Segment is written, and the Segments written by a        *)
(* compaction hold no key that was tombstoned when the compaction started  *)
(* (nor, the set being cleared first, when they are written).              *)
C15_NoTombstonedKeyWritten ==
    [][/\ (pc = "idle" /\ pc' = "compact" /\ sstable_counter' = sstable_counter + 1)
            => \A i \in 1..Len(disk'[sstable_counter]) :
                  ParseLine(disk'[sstable_counter][i])[1] \notin deletion_log'
       /\ (pc = "compact" /\ Len(sstables) > max_sstables)
            => \A j \in 1..Len(sstables') :
                  \A i \in 1..Len(disk'[sstables'[j]]) :
                      ParseLine(disk'[sstables'[j]][i])[1]
                          \notin (deletion_log \cup deletion_log')]_vars

(* a compaction has dropped a tombstoned key and kept a live one           *)
C15_Witness ==
    /\ pc = "idle"
    /\ CompactionHasRun
    /\ memtable_limit = MaxLimit
    /\ \E k \in Keys, j \in Keys :
          /\ lastWrite[k].op = "delete"
          /\ k \notin deletion_log
          /\ \A id \in SSTableIds : k \notin SegmentKeys(id)
          /\ lastWrite[j].op = "insert"
          /\ \E id \in SSTableIds : j \in SegmentKeys(id)

(* C16: every Segment of the list holds its keys in strictly ascending     *)
(* order, hence without a duplicate.                                       *)
C16_SegmentsSorted ==
    \A id \in SSTableIds :
        \A i \in 1..(Len(disk[id]) - 1) :
            ParseLine(disk[id][i])[1] < ParseLine(disk[id][i + 1])[1]

(* after a compaction the list holds a Segment of two keys written by the  *)
(* compaction and a newer one of two keys written by a flush               *)
C16_Witness ==
    /\ CompactionHasRun
    /\ Len(sstables) >= 2
    /\ sstables[Len(sstables)] = sstable_counter - 1
    /\ pc = "compact"
    /\ outcome = "pending"
    /\ Len(disk[sstables[1]]) = 2
    /\ Len(disk[sstables[Len(sstables)]]) = 2

(* C17: with memtable_limit >= 1, right after a compaction every Segment   *)
(* holds at most memtable_limit entries and every key of a Segment is      *)
(* smaller than every key of the Segments after it in the list, so no key  *)
(* is in two Segments.                                                     *)
C17_CompactionLayout ==
    [][(pc = "compact" /\ Len(sstables) > max_sstables /\ memtable_limit >= 1)
         => /\ \A j \in 1..Len(sstables') :
                  Len(disk'[sstables'[j]]) <= memtable_limit
            /\ \A j1 \in 1..Len(sstables'), j2 \in 1..Len(sstables') :
                  j1 < j2 =>
                      \A i1 \in 1..Len(disk'[sstables'[j1]]),
                         i2 \in 1..Len(disk'[sstables'[j2]]) :
                          ParseLine(disk'[sstables'[j1]][i1])[1]
                              < ParseLine(disk'[sstables'[j2]][i2])[1]]_vars

(* a compaction has just written a full chunk and a partial one            *)
C17_Witness ==
    /\ pc = "idle"
    /\ outcome = "ok"
    /\ memtable_limit = 2
    /\ Len(sstables) = 2
    /\ Len(sstables) > max_sstables
    /\ sstables[2] = sstable_counter - 1
    /\ sstables[1] = sstable_counter - 2
    /\ CompactionHasRun
    /\ Len(disk[sstables[1]]) = 2
    /\ Len(disk[sstables[2]]) = 1

(* C18: a step that flushes hands over to the compaction check, which runs *)
(* before the call returns; the check replaces the Segments and clears the *)
(* Tombstone Set exactly when the list is longer than max_sstables and     *)
(* otherwise changes neither; no Segment is destroyed by any other step,   *)
(* and the check is only entered after a flush or from                     *)
(* enforce_final_compaction with a list longer than max_sstables.          *)
C18_FlushThenCompactionCheck ==
    [][/\ (pc = "idle" /\ sstables' # sstables)
            => /\ sstables' = Append(sstables, sstable_counter)
               /\ pc' = "compact"
       /\ (pc = "idle" /\ pc' = "compact" /\ sstables' = sstables)
            => /\ Len(sstables) > max_sstables
               /\ UNCHANGED <<memtable, deletion_log, disk, lastWrite>>
       /\ pc = "idle" => \A id \in DOMAIN disk : id \in DOMAIN disk' /\ disk'[id] = disk[id]
       /\ pc = "compact"
            => /\ pc' = "idle"
               /\ Len(sstables) > max_sstables
                     => /\ \A j \in 1..Len(sstables') : sstables'[j] >= sstable_counter
                        /\ \A id \in SSTableIds : id \notin DOMAIN disk'
                        /\ deletion_log' = {}
               /\ Len(sstables) <= max_sstables
                     => UNCHANGED <<sstables, deletion_log, disk>>]_vars

(* a flush has just handed over to the check with a short enough list and  *)
(* a pending tombstone                                                     *)
C18_Witness ==
    /\ pc = "compact"
    /\ outcome = "pending"
    /\ memtable_limit >= 1
    /\ Len(sstables) = max_sstables
    /\ deletion_log # {}
    /\ CompactionHasRun

(* C19: no key is in the Memtable and in the Tombstone Set at once, and    *)
(* the Segment a flush writes holds every key the Memtable held before the *)
(* triggering insert: the tombstone filter of the flush drops nothing.     *)
C19_MemtableTombstoneDisjoint ==
    /\ []((DOMAIN memtable) \cap deletion_log = {})
    /\ [][(pc = "idle" /\ pc' = "compact" /\ sstable_counter' = sstable_counter + 1)
            => /\ \A k \in DOMAIN memtable :
                     \E i \in 1..Len(disk'[sstable_counter]) :
                         ParseLine(disk'[sstable_counter][i])[1] = k
               /\ Len(disk'[sstable_counter]) >= 1]_vars

(* a Memtable entry and a tombstone side by side after a compaction, the   *)
(* Memtable key once flushed and since rewritten                           *)
C19_Witness ==
    /\ pc = "idle"
    /\ CompactionHasRun
    /\ deletion_log # {}
    /\ \E k \in DOMAIN memtable :
          /\ k \notin deletion_log
          /\ \E id \in SSTableIds : search_sstable(id, k) \notin {None, memtable[k]}

(* C20: whatever levels the nodes drew, search(key) returns values exactly *)
(* for the keys inserted and not deleted since.                            *)
C20_SearchSoundAndComplete ==
    \A k \in Keys : (SkipList_search(k) # SkipNone) <=> (k \in in_list)

(* What holds: search never returns values for a key that is not in the    *)
(* list, and finds the smallest key of the list.                           *)
SearchSound ==
    \A k \in Keys :
        /\ SkipList_search(k) # SkipNone => k \in in_list
        /\ (k \in in_list /\ \A j \in in_list : k <= j) => SkipList_search(k) # SkipNone

====
